---- MODULE Spec2Model ----
(***************************************************************************)
(* Model of src/app.py, the WMS site validation dashboard: a Streamlit     *)
(* script that is run top to bottom once per user interaction (a render    *)
(* cycle).  Every cycle loads the whole table from site_records.csv with   *)
(* pandas, renders one of two pages and, on the second page, may append a  *)
(* record or delete the rows of one site and rewrite the whole file.       *)
(*                                                                         *)
(* Cell texts are TLA+ strings.  A pandas missing value (float nan) is the *)
(* value NaN below.  The file is modelled after CSV tokenisation: a        *)
(* sequence of rows, each a function from the seven column names to the    *)
(* text of the cell (the header row is the fixed set Columns).  The texts  *)
(* the forms below supply to the text columns are never numeric, so that   *)
(* pandas' column type inference leaves those columns as text; Sr_No is    *)
(* always written as a decimal integer and is read back as an integer.     *)
(***************************************************************************)
EXTENDS Integers, Sequences, FiniteSets, TLC

VARIABLES
  file,      \* site_records.csv
  noneIsNA,  \* the installed pandas reads the text None as a missing value
  pc,        \* per session: "idle" between cycles, "loaded" after line 34
  df,        \* per session: the script's df
  loaded,    \* per session: df as line 34 loaded it in the current cycle
  req,       \* per session: the interaction the current cycle serves
  msg,       \* per session: the message the cycle reported
  wrote,     \* per session: the cycle called save_data
  view,      \* per session: what the cycle put on the page
  stale,     \* per session: the file was rewritten since the session loaded
  last,      \* the session of the latest step and the file before that step
  seen,      \* per session: the file as line 28 read it in the current cycle
  prevInsert,\* per session: the record the cycle before this one saved, if any
  inserts,   \* records saved so far
  runs       \* per session: cycles started in the two-session specification

vars ==
  <<file, noneIsNA, pc, df, loaded, req, msg, wrote, view, stale, last,
    seen, prevInsert, inserts, runs>>

(* ------------------------------ bounds -------------------------------- *)

\* records saved by Save Record in one exploration
MaxInserts == 2

\* render cycles each session starts in the two-session specification
MaxRaceRuns == 1

(* ------------------------------- text --------------------------------- *)

Columns ==
  {"Sr_No", "Site Name", "Validation Report", "Issue Sensors", "WMS_Type",
   "Issue_Description", "Date_Logged"}

TextColumns == Columns \ {"Sr_No"}

\* float nan, pandas' missing value; no text a form supplies equals it
NaN == "<float nan>"

Char(t, i) == SubSeq(t, i, i)

UpperAlpha == "ABCDEFGHIJKLMNOPQRSTUVWXYZ"

LowerAlpha == "abcdefghijklmnopqrstuvwxyz"

UpperChars == {Char(UpperAlpha, i) : i \in 1..26}

LowerMap ==
  [c \in UpperChars |->
     Char(LowerAlpha, CHOOSE i \in 1..26 : Char(UpperAlpha, i) = c)]

\* str.lower() of one character
Lower(c) == IF c \in UpperChars THEN LowerMap[c] ELSE c

Digits == "0123456789"

RECURSIVE IntToText(_)
IntToText(n) ==
  IF n < 10 THEN Char(Digits, n + 1)
  ELSE IntToText(n \div 10) \o Char(Digits, (n % 10) + 1)

DigitValue(c) == (CHOOSE i \in 1..10 : Char(Digits, i) = c) - 1

RECURSIVE TextToInt(_)
TextToInt(t) ==
  IF Len(t) = 1 THEN DigitValue(t)
  ELSE 10 * TextToInt(SubSeq(t, 1, Len(t) - 1)) + DigitValue(Char(t, Len(t)))

(* ------------------------- pandas CSV reading ------------------------- *)

\* the texts read_csv turns into a missing value; "None" joined the default
\* list in pandas 2.0, and the repository pins no pandas version
NAValues(withNone) ==
  {"", "#N/A", "#N/A N/A", "#NA", "-1.#IND", "-1.#QNAN", "-NaN", "-nan",
   "1.#IND", "1.#QNAN", "<NA>", "N/A", "NA", "NULL", "NaN", "n/a", "nan",
   "null"} \cup (IF withNone THEN {"None"} ELSE {})

ParseCell(t, withNone) == IF t \in NAValues(withNone) THEN NaN ELSE t

\* DataFrame.to_csv: a missing value is written as the empty text
FormatCell(v) == IF v = NaN THEN "" ELSE v

read_csv(rows, withNone) ==
  [i \in 1..Len(rows) |->
     [c \in Columns |->
        IF c = "Sr_No" THEN TextToInt(rows[i][c])
        ELSE ParseCell(rows[i][c], withNone)]]

to_csv(table) ==
  [i \in 1..Len(table) |->
     [c \in Columns |->
        IF c = "Sr_No" THEN IntToText(table[i][c])
        ELSE FormatCell(table[i][c])]]

(* ----------------------------- seed data ------------------------------ *)

Row(n, site, val, sensor, wms, desc, date) ==
  [c \in Columns |->
     CASE c = "Sr_No" -> n
       [] c = "Site Name" -> site
       [] c = "Validation Report" -> val
       [] c = "Issue Sensors" -> sensor
       [] c = "WMS_Type" -> wms
       [] c = "Issue_Description" -> desc
       [] c = "Date_Logged" -> date]

SeedData ==
  << Row(1, "Site-A (North)", "Validated", "Temp Sensor", "WMS-1",
         "Calibration Drift", "2023-01-15"),
     Row(2, "Site-B (South)", "Failed", "None", "WMS-2",
         "No Issues", "2023-02-20"),
     Row(3, "Site-C (East)", "Validated", "Humidity Sensor", "WMS-1",
         "Connector Fault", "2023-03-10"),
     Row(4, "Site-D (West)", "Failed", "Pressure Sensor", "WMS-2",
         "Power Failure", "2023-04-05"),
     Row(5, "Site-E (North)", "Pending", "None", "WMS-1",
         "No Issues", "2023-05-12") >>

\* the backing file: absent, or the cell texts of its data rows
NoFile == [exists |-> FALSE, rows |-> << >>]

FileOf(rows) == [exists |-> TRUE, rows |-> rows]

\* save_data(df): the whole file is replaced
save_data(table) == FileOf(to_csv(table))

\* the file load_data leaves behind: the seed is written when none exists
load_file(f) == IF f.exists THEN f ELSE save_data(SeedData)

\* load_data(): what the cycle gets as df
load_data(f, withNone) == read_csv(load_file(f).rows, withNone)

(* --------------------------- pandas values --------------------------- *)

\* elementwise == and != of a column against a value: nan equals nothing
PyEq(a, b) == a # NaN /\ b # NaN /\ a = b

PyNe(a, b) == ~PyEq(a, b)

ColumnValues(table, c) == {table[i][c] : i \in 1..Len(table)}

\* row.astype(str): an integer as decimal digits, a missing value as "nan"
StrOf(row, c) ==
  IF c = "Sr_No" THEN IntToText(row[c])
  ELSE IF row[c] = NaN THEN "nan" ELSE row[c]

AsStr(row) == [c \in Columns |-> StrOf(row, c)]

(* ------------------------------ search -------------------------------- *)

\* str.contains(search_term, case=False) compiles search_term as a regular
\* expression (regex=True is the default).  Of the special characters only
\* the parentheses and the dot occur in the terms explored below.
RECURSIVE ParenDepth(_, _)
ParenDepth(t, d) ==
  IF d < 0 THEN d
  ELSE IF t = "" THEN d
  ELSE ParenDepth(Tail(t),
                  IF Head(t) = "(" THEN d + 1
                  ELSE IF Head(t) = ")" THEN d - 1 ELSE d)

\* re.compile accepts the term
RegexCompiles(t) == ParenDepth(t, 0) = 0

\* a group without alternative or repetition matches what its content matches
RECURSIVE StripGroups(_)
StripGroups(t) ==
  IF t = "" THEN ""
  ELSE IF Head(t) \in {"(", ")"} THEN StripGroups(Tail(t))
  ELSE Head(t) \o StripGroups(Tail(t))

\* one pattern character against one text character under re.IGNORECASE
CharMatches(p, x) == (p = "." /\ x # "\n") \/ Lower(p) = Lower(x)

\* re.search finds a match of the compiled pattern p (the term without its
\* group parentheses) in the text
RegexSearch(p, text) ==
  \E i \in 0..(Len(text) - Len(p)) :
    \A k \in 1..Len(p) : CharMatches(Char(p, k), Char(text, i + k))

\* the mask of line 108 for one row
RowMatches(row, p) ==
  \E c \in Columns : RegexSearch(p, StrOf(row, c))

\* df[mask]
MaskedRows(table, p) ==
  LET hit(r) == RowMatches(r, p) IN SelectSeq(table, hit)

\* the filter raises re.error: apply never calls the lambda with a term that
\* fails to compile unless the table has a row
FilterRaises(table, term) ==
  term # "" /\ table # << >> /\ ~RegexCompiles(term)

\* filtered_df of lines 106-111, when the filter does not raise
filtered_df(table, term) ==
  IF term = "" THEN table ELSE MaskedRows(table, StripGroups(term))

(* ----------------------------- dashboard ------------------------------ *)

\* issue_df of line 70
issue_df(table) ==
  LET hasIssue(r) == PyNe(r["Issue Sensors"], "None")
  IN SelectSeq(table, hasIssue)

\* value_counts of Issue_Description over the issue rows: missing values are
\* dropped; the ranking order of the tally is not modelled
top_issues(table) ==
  LET sub == issue_df(table)
      descs == ColumnValues(sub, "Issue_Description") \ {NaN}
  IN [d \in descs |->
        Cardinality({i \in 1..Len(sub) : sub[i]["Issue_Description"] = d})]

\* the four KPI cards of lines 48-51
Kpis(table) ==
  LET failed(r) == PyEq(r["Validation Report"], "Failed")
      wms1(r) == PyEq(r["WMS_Type"], "WMS-1")
      wms2(r) == PyEq(r["WMS_Type"], "WMS-2")
  IN [total_sites |-> Len(table),
      sites_with_issue |-> Len(SelectSeq(table, failed)),
      wms1_issues |-> Len(SelectSeq(table, wms1)),
      wms2_issues |-> Len(SelectSeq(table, wms2))]

NoKpis ==
  [total_sites |-> 0, sites_with_issue |-> 0, wms1_issues |-> 0,
   wms2_issues |-> 0]

\* what a cycle has put on the page
NoView == [kind |-> "none", rows |-> << >>, kpi |-> NoKpis, top |-> << >>]

DashboardView(table) ==
  [kind |-> IF issue_df(table) # << >> THEN "charts" ELSE "fallback",
   rows |-> issue_df(table),
   kpi |-> Kpis(table),
   top |-> IF issue_df(table) # << >> THEN top_issues(table) ELSE << >>]

SearchView(table, term) ==
  [kind |-> "search", rows |-> filtered_df(table, term), kpi |-> NoKpis,
   top |-> << >>]

(* ------------------------- add and delete ----------------------------- *)

RECURSIVE MaxOf(_)
MaxOf(S) ==
  LET x == CHOOSE y \in S : TRUE
  IN IF S = {x} THEN x
     ELSE LET m == MaxOf(S \ {x}) IN IF x > m THEN x ELSE m

\* int(df['Sr_No'].max() + 1) raises ValueError on a table without rows:
\* max() is nan there
SerialRaises(table) == table = << >>

\* a serial taken from the number of rows instead of the largest serial
NextSerialByCount(table) == Len(table) + 1

NextSerial(table) == MaxOf(ColumnValues(table, "Sr_No")) + 1

\* datetime.today().strftime('%Y-%m-%d')
Today == "2024-06-01"

\* new_data of lines 140-148
new_data(table, f) ==
  Row(NextSerial(table), f.site, f.val,
      IF f.sensor # "" THEN f.sensor ELSE "None",
      f.wms,
      IF f.desc # "" THEN f.desc ELSE "No Issues",
      Today)

\* line 162
DeleteRows(table, site) ==
  LET other(r) == PyNe(r["Site Name"], site) IN SelectSeq(table, other)

\* the value None the select box returns when it has no option
PyNone == "<None>"

\* the options of the select box of line 160
DeleteOptions(table) ==
  IF table = << >> THEN {PyNone} ELSE ColumnValues(table, "Site Name")

(* ------------------------------ inputs -------------------------------- *)

Sessions == {1, 2}

Form(site, val, wms, sensor, desc) ==
  [site |-> site, val |-> val, wms |-> wms, sensor |-> sensor, desc |-> desc]

\* the submission of the scenario of the specification: two texts left empty
FormF == Form("Site-F", "Pending", "WMS-1", "", "")

\* a second record for a site that the seed already names
FormDup == Form("Site-A (North)", "Failed", "WMS-2", "Temp Sensor", "Power Failure")

\* free texts that read_csv takes for missing values
FormNA == Form("NA", "Validated", "WMS-1", "N/A", "Sensor offline")

\* the Site Name left empty
FormBlank == Form("", "Failed", "WMS-2", "Temp Sensor", "")

Forms == {FormF, FormDup, FormNA, FormBlank}

\* contents of the search box when the search page is shown
Terms == {"", "SITE-f", "Site-A (North)", "(", "nan"}

\* contents of the search box when Save Record is pressed
BoxTerms == {"", "("}

NoReq == [op |-> "none", term |-> "", form |-> FormBlank, site |-> ""]

NoPrev == [done |-> FALSE, site |-> "", before |-> << >>, fileBefore |-> NoFile]

(* --------------------------- state machine ---------------------------- *)

Init ==
  /\ file = NoFile
  /\ noneIsNA \in BOOLEAN
  /\ pc = [s \in Sessions |-> "idle"]
  /\ df = [s \in Sessions |-> << >>]
  /\ loaded = [s \in Sessions |-> << >>]
  /\ req = [s \in Sessions |-> NoReq]
  /\ msg = [s \in Sessions |-> "none"]
  /\ wrote = [s \in Sessions |-> FALSE]
  /\ view = [s \in Sessions |-> NoView]
  /\ stale = [s \in Sessions |-> FALSE]
  /\ last = [s |-> 0, fileBefore |-> NoFile]
  /\ seen = [s \in Sessions |-> NoFile]
  /\ prevInsert = [s \in Sessions |-> NoPrev]
  /\ inserts = 0
  /\ runs = [s \in Sessions |-> 0]

\* line 34, df = load_data(): the start of a render cycle
LoadData(s, counted) ==
  /\ pc[s] = "idle"
  /\ counted => runs[s] < MaxRaceRuns
  /\ file' = load_file(file)
  /\ df' = [df EXCEPT ![s] = load_data(file, noneIsNA)]
  /\ loaded' = [loaded EXCEPT ![s] = load_data(file, noneIsNA)]
  /\ pc' = [pc EXCEPT ![s] = "loaded"]
  /\ req' = [req EXCEPT ![s] = NoReq]
  /\ msg' = [msg EXCEPT ![s] = "none"]
  /\ wrote' = [wrote EXCEPT ![s] = FALSE]
  /\ view' = [view EXCEPT ![s] = NoView]
  /\ stale' = [stale EXCEPT ![s] = FALSE]
  /\ last' = [s |-> s, fileBefore |-> file]
  /\ seen' = [seen EXCEPT ![s] = load_file(file)]
  /\ prevInsert' =
       [prevInsert EXCEPT ![s] =
          IF req[s].op = "insert" /\ wrote[s]
            THEN [done |-> TRUE, site |-> req[s].form.site,
                  before |-> loaded[s], fileBefore |-> seen[s]]
            ELSE NoPrev]
  /\ runs' = IF counted THEN [runs EXCEPT ![s] = @ + 1] ELSE runs
  /\ UNCHANGED <<noneIsNA, inserts>>

\* the end of a cycle that does not call save_data
Finish(s, r, m, v) ==
  /\ pc' = [pc EXCEPT ![s] = "idle"]
  /\ req' = [req EXCEPT ![s] = r]
  /\ msg' = [msg EXCEPT ![s] = m]
  /\ view' = [view EXCEPT ![s] = v]
  /\ wrote' = [wrote EXCEPT ![s] = FALSE]
  /\ last' = [s |-> s, fileBefore |-> file]
  /\ UNCHANGED <<file, noneIsNA, df, loaded, stale, seen, prevInsert, inserts,
                 runs>>

\* the end of a cycle that assigns df, calls save_data(df) and st.rerun()
FinishSaved(s, r, m, table, saved) ==
  /\ pc' = [pc EXCEPT ![s] = "idle"]
  /\ req' = [req EXCEPT ![s] = r]
  /\ msg' = [msg EXCEPT ![s] = m]
  /\ view' = [view EXCEPT ![s] = NoView]
  /\ wrote' = [wrote EXCEPT ![s] = TRUE]
  /\ df' = [df EXCEPT ![s] = table]
  /\ file' = save_data(table)
  /\ stale' = [o \in Sessions |->
                 IF o # s /\ pc[o] = "loaded" THEN TRUE ELSE stale[o]]
  /\ last' = [s |-> s, fileBefore |-> file]
  /\ inserts' = inserts + saved
  /\ UNCHANGED <<noneIsNA, loaded, seen, prevInsert, runs>>

\* lines 41-95: the Dashboard Overview page
DashboardOverview(s) ==
  /\ pc[s] = "loaded"
  /\ Finish(s, [NoReq EXCEPT !.op = "dashboard"], "none", DashboardView(df[s]))

\* lines 98-165 with neither button pressed: the search page
SearchRecords(s, term) ==
  /\ pc[s] = "loaded"
  /\ IF FilterRaises(df[s], term)
       THEN Finish(s, [NoReq EXCEPT !.op = "search", !.term = term],
                   "exception", NoView)
       ELSE Finish(s, [NoReq EXCEPT !.op = "search", !.term = term],
                   "none", SearchView(df[s], term))

\* Save Record without the test of line 139
SaveRecordUnchecked(s, term, f) ==
  LET r == [NoReq EXCEPT !.op = "insert", !.term = term, !.form = f] IN
  /\ pc[s] = "loaded"
  /\ inserts < MaxInserts
  /\ IF FilterRaises(df[s], term)
       THEN Finish(s, r, "exception", NoView)
     ELSE IF SerialRaises(df[s])
       THEN Finish(s, r, "exception", SearchView(df[s], term))
     ELSE FinishSaved(s, r, "success",
                      Append(df[s], new_data(df[s], f)), 1)

\* Save Record appending to a table read afresh instead of the cycle's df
SaveRecordReloading(s, term, f) ==
  LET r == [NoReq EXCEPT !.op = "insert", !.term = term, !.form = f]
      fresh == load_data(file, noneIsNA)
  IN
  /\ pc[s] = "loaded"
  /\ f.site # "" => inserts < MaxInserts
  /\ IF FilterRaises(fresh, term)
       THEN Finish(s, r, "exception", NoView)
     ELSE IF f.site = ""
       THEN Finish(s, r, "error", SearchView(fresh, term))
     ELSE IF SerialRaises(fresh)
       THEN Finish(s, r, "exception", SearchView(fresh, term))
     ELSE FinishSaved(s, r, "success",
                      Append(fresh, new_data(fresh, f)), 1)

\* lines 98-156 with Save Record pressed
SaveRecord(s, term, f) ==
  LET r == [NoReq EXCEPT !.op = "insert", !.term = term, !.form = f] IN
  /\ pc[s] = "loaded"
  /\ f.site # "" => inserts < MaxInserts
  /\ IF FilterRaises(df[s], term)
       THEN Finish(s, r, "exception", NoView)
     ELSE IF f.site = ""
       THEN Finish(s, r, "error", SearchView(df[s], term))
     ELSE IF SerialRaises(df[s])
       THEN Finish(s, r, "exception", SearchView(df[s], term))
     ELSE FinishSaved(s, r, "success",
                      Append(df[s], new_data(df[s], f)), 1)

\* lines 98-165 with Delete Selected Site pressed
DeleteSelectedSite(s, term, site) ==
  LET r == [NoReq EXCEPT !.op = "delete", !.term = term, !.site = site] IN
  /\ pc[s] = "loaded"
  /\ site \in DeleteOptions(df[s])
  /\ IF FilterRaises(df[s], term)
       THEN Finish(s, r, "exception", NoView)
       ELSE FinishSaved(s, r, "warning", DeleteRows(df[s], site), 0)

\* one operator in one browser session
Next ==
  \/ LoadData(1, FALSE)
  \/ DashboardOverview(1)
  \/ \E term \in Terms : SearchRecords(1, term)
  \/ \E term \in BoxTerms, f \in Forms : SaveRecord(1, term, f)
  \/ \E site \in DeleteOptions(df[1]) : DeleteSelectedSite(1, "", site)

Spec == Init /\ [][Next]_vars

\* two browser sessions on the same file; each starts MaxRaceRuns cycles
NextRace ==
  \E s \in Sessions :
    \/ LoadData(s, TRUE)
    \/ \E f \in Forms : SaveRecord(s, "", f)
    \/ \E site \in DeleteOptions(df[s]) : DeleteSelectedSite(s, "", site)

SpecRace == Init /\ [][NextRace]_vars

(* ------------------------- helpers of the claims ---------------------- *)

Idle(s, op) == pc[s] = "idle" /\ req[s].op = op

Serials(table) == [i \in 1..Len(table) |-> table[i]["Sr_No"]]

Range(q) == {q[i] : i \in 1..Len(q)}

RECURSIVE LowerText(_)
LowerText(t) == IF t = "" THEN "" ELSE Lower(Head(t)) \o LowerText(Tail(t))

\* t occurs in text as a literal substring
LiteralContains(text, t) ==
  \E i \in 0..(Len(text) - Len(t)) : SubSeq(text, i + 1, i + Len(t)) = t

LiteralRowMatch(row, term) ==
  \E c \in Columns :
    LiteralContains(LowerText(AsStr(row)[c]), LowerText(term))

\* the table a request asks for, given the table the cycle loaded
Requested(r, table) ==
  IF r.op = "insert" THEN Append(table, new_data(table, r.form))
  ELSE DeleteRows(table, r.site)

(* ------------------------------- claims ------------------------------- *)

\* C1: every Save Record with a non-empty Site Name (the search box left
\* empty) succeeds and appends a record whose Sr_No is the largest Sr_No of
\* the loaded table plus one, and 1 when the loaded table has no row.
C1_InsertAssignsNextSerial ==
  \A s \in Sessions :
    (Idle(s, "insert") /\ req[s].form.site # "" /\ req[s].term = "") =>
      /\ msg[s] = "success"
      /\ Len(df[s]) = Len(loaded[s]) + 1
      /\ df[s][Len(df[s])]["Sr_No"] =
           IF loaded[s] = << >> THEN 1
           ELSE MaxOf(Range(Serials(loaded[s]))) + 1

\* C2: a table that load_data reads back equals the table that was written:
\* the first load returns the seed rows as written, and the table a cycle
\* saved is the table the file gives back, field for field.
C2_RoundTrip ==
  \A s \in Sessions :
    /\ (pc[s] = "loaded" /\ last.s = s /\ ~last.fileBefore.exists) =>
         loaded[s] = SeedData
    /\ (pc[s] = "idle" /\ wrote[s]) =>
         read_csv(save_data(df[s]).rows, noneIsNA) = df[s]

\* C3: Delete Selected Site leaves exactly the rows of the loaded table whose
\* Site Name is not the selected value, in order and unchanged, and the file
\* holds that table.
C3_DeleteRemovesNamedRows ==
  \A s \in Sessions :
    (Idle(s, "delete") /\ wrote[s] /\ last.s = s) =>
      LET other(r) == r["Site Name"] # req[s].site
      IN /\ df[s] = SelectSeq(loaded[s], other)
         /\ file = save_data(df[s])

\* C4: Save Record with an empty Site Name changes neither the table nor the
\* file, calls save_data not at all and reports an error, never a success:
\* "Site Name is required." when the search filter ran, the exception of the
\* filter otherwise.
C4_EmptySiteNameRejected ==
  \A s \in Sessions :
    (Idle(s, "insert") /\ req[s].form.site = "" /\ last.s = s) =>
      /\ file = last.fileBefore
      /\ df[s] = loaded[s]
      /\ ~wrote[s]
      /\ msg[s] = IF FilterRaises(loaded[s], req[s].term)
                    THEN "exception" ELSE "error"

C4_Witness ==
  /\ Idle(1, "insert") /\ req[1].form = FormBlank /\ last.s = 1
  /\ msg[1] = "error"
  /\ Len(df[1]) = 6
  /\ file = save_data(df[1])

\* C5: the search page shows, in table order, exactly the rows of which some
\* field, as text and in lower case, contains the lower-cased term as a
\* literal substring, and the whole table for the empty term.
C5_SearchIsLiteralSubstring ==
  \A s \in Sessions :
    Idle(s, "search") =>
      LET hit(r) == LiteralRowMatch(r, req[s].term)
      IN /\ msg[s] # "exception"
         /\ view[s].rows = IF req[s].term = "" THEN loaded[s]
                           ELSE SelectSeq(loaded[s], hit)

\* C6: a cycle that saves a record for a site the table did not name,
\* followed by a cycle that deletes that site, leaves the table the first
\* cycle loaded; when that table was the seed, table and file are the seed.
C6_InsertThenDeleteRestores ==
  \A s \in Sessions :
    LET p == prevInsert[s] IN
    ( /\ Idle(s, "delete") /\ wrote[s] /\ last.s = s
      /\ p.done
      /\ \A i \in 1..Len(p.before) :
           p.before[i]["Site Name"] \notin {p.site, ParseCell(p.site, noneIsNA)}
      /\ req[s].site = ParseCell(p.site, noneIsNA) ) =>
      /\ df[s] = p.before
      /\ p.fileBefore = save_data(SeedData) =>
           (df[s] = SeedData /\ file = save_data(SeedData))

\* C7: a session that saves after the other session rewrote the file behind
\* its back leaves in the file the table it computed from its own stale
\* load, and is told its request was done.  When both sessions had loaded
\* the same table before the first of them saved, the change of the first
\* is gone from the file: the record it appended is not there, the rows it
\* deleted are there again, and it, too, was told its request was done.
C7_LastWriterWins ==
  \A a \in Sessions, b \in Sessions :
    (a # b /\ last.s = b /\ pc[b] = "idle" /\ wrote[b] /\ stale[b]) =>
      /\ df[b] = Requested(req[b], loaded[b])
      /\ file = save_data(df[b])
      /\ msg[b] \in {"success", "warning"}
      /\ ( /\ pc[a] = "idle" /\ wrote[a] /\ ~stale[a]
           /\ loaded[a] = loaded[b]
           /\ last.fileBefore = save_data(df[a]) ) =>
           /\ msg[a] \in {"success", "warning"}
           /\ (req[a].op = "insert" /\ req[b] # req[a]) =>
                to_csv(df[a])[Len(df[a])] \notin Range(file.rows)
           /\ (req[a].op = "delete" /\ req[b] # req[a]) =>
                \A i \in 1..Len(loaded[a]) :
                  loaded[a][i]["Site Name"] = req[a].site =>
                    to_csv(loaded[a])[i] \in Range(file.rows)

C7_Witness ==
  /\ last.s = 2 /\ pc[1] = "idle" /\ pc[2] = "idle"
  /\ wrote[1] /\ wrote[2] /\ stale[2]
  /\ req[1].form = FormF /\ req[1].op = "insert"
  /\ req[2].form = FormDup /\ req[2].op = "insert"
  /\ loaded[1] = loaded[2] /\ ~stale[1]
  /\ last.fileBefore = save_data(df[1])
  /\ Len(file.rows) = 6
  /\ \A i \in 1..Len(file.rows) : file.rows[i]["Site Name"] # "Site-F"

\* C8: every record of every table (loaded, held by a cycle, or in the file)
\* has a value in each of its seven fields: no missing value and no empty
\* text.
C8_AllFieldsPopulated ==
  /\ \A s \in Sessions : \A t \in {df[s], loaded[s]} :
       \A i \in 1..Len(t) : \A c \in TextColumns : t[i][c] \notin {NaN, ""}
  /\ \A i \in 1..Len(file.rows) : \A c \in Columns : file.rows[i][c] # ""

\* C9: in one session the serial numbers of the table and of the file are
\* strictly increasing in row order (hence pairwise distinct); after Save
\* Record the rows before the new one are the loaded rows, and after Delete
\* every remaining row is a loaded row with its serial number.
C9_SerialsUniqueOrdered ==
  /\ \A i \in 1..Len(df[1]) : \A j \in 1..Len(df[1]) :
       i < j => df[1][i]["Sr_No"] < df[1][j]["Sr_No"]
  /\ \A i \in 1..Len(file.rows) : \A j \in 1..Len(file.rows) :
       i < j => TextToInt(file.rows[i]["Sr_No"]) < TextToInt(file.rows[j]["Sr_No"])
  /\ (Idle(1, "insert") /\ wrote[1]) =>
       SubSeq(df[1], 1, Len(loaded[1])) = loaded[1]
  /\ (Idle(1, "delete") /\ wrote[1]) =>
       \A i \in 1..Len(df[1]) : df[1][i] \in Range(loaded[1])

C9_Witness ==
  /\ Idle(1, "insert") /\ wrote[1]
  /\ Serials(df[1]) = <<1, 3, 5, 6, 7>>

\* C10: the rows the dashboard analyses are exactly the rows of the file
\* whose Issue Sensors text is not None, and the fallback messages replace
\* the charts exactly when every row of the file has None there.
C10_IssueSubsetIsNonNoneRows ==
  \A s \in Sessions :
    (Idle(s, "dashboard") /\ last.s = s) =>
      LET issue(r) == r["Issue Sensors"] # "None"
      IN /\ Serials(view[s].rows) = Serials(read_csv(SelectSeq(file.rows, issue), noneIsNA))
         /\ view[s].kind = "fallback" <=>
              \A i \in 1..Len(file.rows) : file.rows[i]["Issue Sensors"] = "None"

====
